---- MODULE Spec2Model ----
(***************************************************************************)
(* A model of the RAG writing assistant: the chunker (TextProcessor), the   *)
(* similarity index (VectorStore), the orchestrator (RAGWritingAssistant)  *)
(* and the Flask web layer that drives them.                               *)
(*                                                                         *)
(* Text is a sequence of characters over a three-letter alphabet: one      *)
(* non-whitespace character and the two kinds of whitespace the chunker's  *)
(* regular expression tells apart (a line break and any other whitespace). *)
(***************************************************************************)
EXTENDS Integers, Sequences, FiniteSets, TLC

VARIABLES
    file_name,      \* extract_metadata_from_filename argument: the file name
    text,           \* chunk_text argument: the document text
    metadata,       \* the metadata mapping: chunk_text argument, extraction result
    chunk_size,     \* TextProcessor.chunk_size
    chunk_overlap,  \* TextProcessor.chunk_overlap
    chunks,         \* the list the call on the TextProcessor returned
    called,         \* TRUE once the call on the TextProcessor has returned
    earlier,        \* history: what the call before the last one returned
    collection,     \* VectorStore.collection: the records of the storage engine
    disk,           \* the JSON file save_to_disk writes and load_from_disk reads
    on_duplicate,   \* what the storage engine does with an id it already holds
    last,           \* the last VectorStore call and how it ended
    prev_collection,\* history: the collection when the last call started
    persisted,      \* history: the records of the collection at the last save
    add_ids,        \* history: the ids returned by the adds since the last clear
    corpus,         \* CORPUS_DIR: the files of the corpus directory
    rag_assistant,  \* app.rag_assistant: FALSE for None, TRUE for the assistant
    initialization_status,  \* app.initialization_status["status"]
    pc,             \* where each thread of the web application is
    local           \* the local variables of each thread

chunkerVars ==
    <<file_name, text, metadata, chunk_size, chunk_overlap, chunks, called, earlier>>
storeVars ==
    <<collection, disk, on_duplicate, last, prev_collection, persisted, add_ids>>
webVars == <<corpus, rag_assistant, initialization_status, pc, local>>
vars == <<chunkerVars, storeVars, webVars>>

----------------------------------------------------------------------------
(* Bounds of the model.                                                    *)

\* longest text drawn character by character
MaxLen == 4
\* most paragraphs of a text assembled from whole paragraphs
MaxParas == 4
\* most chunks handed to one add_texts call
MaxAdd == 2
\* the longest file name, extension not counted
MaxName == 5

----------------------------------------------------------------------------
(* Characters and strings.                                                 *)

W == "w"
SP == " "
NL == "\n"
Alphabet == {W, SP, NL}

\* \s of the regular expression, and the separators of str.split()
IsSpace(c) == c \in {SP, NL}

Max(S) == CHOOSE m \in S : \A n \in S : n <= m

SeqsUpTo(S, n) == UNION {[1..k -> S] : k \in 0..n}

\* p.strip() is a non-empty string
StripNonEmpty(p) == \E i \in 1..Len(p) : ~IsSpace(p[i])

\* len(s.split()): the number of maximal runs of non-whitespace
WordCount(s) ==
    Cardinality({i \in 1..Len(s) : ~IsSpace(s[i]) /\ (i = 1 \/ IsSpace(s[i-1]))})

\* The last index of the greedy match of \n\s*\n that starts at index i
\* of s, or 0 when the expression does not match there.
MatchEnd(s, i) ==
    IF s[i] # NL THEN 0
    ELSE LET run == {k \in i..Len(s) : \A m \in i..k : IsSpace(s[m])}
             ends == {j \in run : j > i /\ s[j] = NL}
         IN  IF ends = {} THEN 0 ELSE Max(ends)

Min(S) == CHOOSE m \in S : \A n \in S : m <= n

\* The pieces of s from index start on: the text up to the leftmost match
\* at or after start, then the pieces of what follows that match.
RECURSIVE ReSplitFrom(_, _)
ReSplitFrom(s, start) ==
    LET matches == {i \in start..Len(s) : MatchEnd(s, i) > 0}
    IN  IF matches = {} THEN <<SubSeq(s, start, Len(s))>>
        ELSE LET i == Min(matches)
             IN  <<SubSeq(s, start, i - 1)>> \o ReSplitFrom(s, MatchEnd(s, i) + 1)

\* re.split(r'\n\s*\n', text)
ReSplit(s) == ReSplitFrom(s, 1)

\* [p for p in re.split(r'\n\s*\n', text) if p.strip()]
Paragraphs(s) == SelectSeq(ReSplit(s), StripNonEmpty)

RECURSIVE JoinFrom(_, _, _)
JoinFrom(paragraphs, idx, k) ==
    IF k > Len(idx) THEN <<>>
    ELSE (IF k > 1 THEN <<NL, NL>> ELSE <<>>)
         \o paragraphs[idx[k]] \o JoinFrom(paragraphs, idx, k + 1)

\* "\n\n".join(current_chunk); current_chunk holds references to the
\* paragraphs, kept here as their positions in the paragraph list
Join(paragraphs, current_chunk) == JoinFrom(paragraphs, current_chunk, 1)

----------------------------------------------------------------------------
(* TextProcessor.chunk_text                                                *)

\* metadata.copy() followed by update({"chunk_id": .., "word_count": ..})
ChunkMetadata(md, chunk_id, current_size) ==
    [chunk_id |-> chunk_id, word_count |-> current_size] @@ md

\* variant of CallerMetadata: the updates are made on the mapping passed in
CallerMetadataNoCopy(md, made) ==
    IF made = <<>> THEN md
    ELSE [chunk_id   |-> made[Len(made)].metadata.chunk_id,
          word_count |-> made[Len(made)].metadata.word_count] @@ md

\* The mapping the caller passed in, once chunk_text has made the chunks:
\* chunk_metadata = metadata.copy() takes a copy for every chunk and the
\* update is made on the copy.
CallerMetadata(md, made) == md

\* The chunk appended to chunks.  paras records which paragraphs
\* current_chunk referred to when the chunk was closed.
MakeChunk(paragraphs, md, current_chunk, current_size, chunk_id) ==
    [text     |-> Join(paragraphs, current_chunk),
     metadata |-> ChunkMetadata(md, chunk_id, current_size),
     paras    |-> current_chunk]

\* variants of MustClose: closing as soon as the target is reached, and
\* looking at the pending words alone
MustCloseAtTarget(self, current_chunk, current_size, paragraph_words) ==
    current_size + paragraph_words >= self.chunk_size /\ current_chunk # <<>>

MustClosePendingOnly(self, current_chunk, current_size, paragraph_words) ==
    current_size > self.chunk_size /\ current_chunk # <<>>

\* the test that closes the pending chunk before a paragraph is added
MustClose(self, current_chunk, current_size, paragraph_words) ==
    current_size + paragraph_words > self.chunk_size /\ current_chunk # <<>>

\* variant of CarryOver: the first paragraph is kept instead of the last
CarryOverFirst(self, current_chunk) ==
    IF self.chunk_overlap > 0 /\ Len(current_chunk) > 1
    THEN <<current_chunk[1]>>
    ELSE <<>>

\* variant of CarryOver: chunk_overlap is the number of paragraphs kept
CarryOverCounted(self, current_chunk) ==
    IF self.chunk_overlap > 0 /\ Len(current_chunk) > 1
    THEN SubSeq(current_chunk,
                Max({2, Len(current_chunk) - self.chunk_overlap + 1}),
                Len(current_chunk))
    ELSE <<>>

\* the pending list a new chunk starts from
CarryOver(self, current_chunk) ==
    IF self.chunk_overlap > 0 /\ Len(current_chunk) > 1
    THEN <<current_chunk[Len(current_chunk)]>>
    ELSE <<>>

\* variant of CarrySize: the count restarts at zero
CarrySizeZero(paragraphs, carried) == 0

\* the running word count a new chunk starts from
CarrySize(paragraphs, carried) ==
    IF carried # <<>> THEN WordCount(paragraphs[carried[1]]) ELSE 0

\* variant of NextChunkId: the counter is not advanced
NextChunkIdStuck(chunk_id) == chunk_id

\* the chunk_id of the chunk after the one just closed
NextChunkId(chunk_id) == chunk_id + 1

\* One iteration of the loop over paragraphs, for paragraph number p.
\* st holds the locals chunks, current_chunk, current_size and chunk_id.
LoopBody(self, paragraphs, md, st, p) ==
    LET paragraph_words == WordCount(paragraphs[p])
        closed == MustClose(self, st.current_chunk, st.current_size, paragraph_words)
        carried == CarryOver(self, st.current_chunk)
        s1 == IF closed
              THEN [chunks        |-> Append(st.chunks,
                                        MakeChunk(paragraphs, md, st.current_chunk,
                                                  st.current_size, st.chunk_id)),
                    current_chunk |-> carried,
                    current_size  |-> CarrySize(paragraphs, carried),
                    chunk_id      |-> NextChunkId(st.chunk_id)]
              ELSE st
    IN  [s1 EXCEPT !.current_chunk = Append(@, p),
                   !.current_size = @ + paragraph_words]

RECURSIVE Loop(_, _, _, _, _)
Loop(self, paragraphs, md, st, p) ==
    IF p > Len(paragraphs) THEN st
    ELSE Loop(self, paragraphs, md, LoopBody(self, paragraphs, md, st, p), p + 1)

\* variant of LastChunk: what is pending at the end is not returned
LastChunkDropped(paragraphs, md, st) == st.chunks

\* variant of LastChunk: a chunk is made even when nothing is pending
LastChunkAlways(paragraphs, md, st) ==
    Append(st.chunks,
           MakeChunk(paragraphs, md, st.current_chunk, st.current_size, st.chunk_id))

\* the chunk made of what is pending when the paragraphs are exhausted
LastChunk(paragraphs, md, st) ==
    IF st.current_chunk # <<>>
    THEN Append(st.chunks,
                MakeChunk(paragraphs, md, st.current_chunk, st.current_size, st.chunk_id))
    ELSE st.chunks

chunk_text(self, txt, md) ==
    LET paragraphs == Paragraphs(txt)
        st0 == [chunks |-> <<>>, current_chunk |-> <<>>,
                current_size |-> 0, chunk_id |-> 0]
    IN  LastChunk(paragraphs, md, Loop(self, paragraphs, md, st0, 1))

----------------------------------------------------------------------------
(* TextProcessor.extract_metadata_from_filename.  A file name is a         *)
(* sequence of characters, like a text, and holds no line break.           *)

UpperCase == <<"A", "B", "C", "D", "E", "F", "G", "H", "I", "J", "K", "L", "M",
               "N", "O", "P", "Q", "R", "S", "T", "U", "V", "W", "X", "Y", "Z">>
LowerCase == <<"a", "b", "c", "d", "e", "f", "g", "h", "i", "j", "k", "l", "m",
               "n", "o", "p", "q", "r", "s", "t", "u", "v", "w", "x", "y", "z">>

\* str.lower()
Lower(s) ==
    [i \in 1..Len(s) |->
        IF \E k \in 1..26 : UpperCase[k] = s[i]
        THEN LowerCase[CHOOSE k \in 1..26 : UpperCase[k] = s[i]]
        ELSE s[i]]

\* sub in s
Contains(s, sub) ==
    \E i \in 1..(Len(s) - Len(sub) + 1) : SubSeq(s, i, i + Len(sub) - 1) = sub

\* str.strip()
Strip(s) ==
    LET solid == {i \in 1..Len(s) : ~IsSpace(s[i])}
    IN  IF solid = {} THEN <<>> ELSE SubSeq(s, Min(solid), Max(solid))

\* str.split(sep) for a one-character separator
RECURSIVE SplitOn(_, _)
SplitOn(s, sep) ==
    LET at == {i \in 1..Len(s) : s[i] = sep}
    IN  IF at = {} THEN <<s>>
        ELSE <<SubSeq(s, 1, Min(at) - 1)>>
             \o SplitOn(SubSeq(s, Min(at) + 1, Len(s)), sep)

\* os.path.splitext(filename)[0]: the name up to its last dot, unless only
\* dots precede that dot
SplitExtBase(filename) ==
    LET dots == {i \in 1..Len(filename) : filename[i] = "."}
    IN  IF dots = {} THEN filename
        ELSE LET d == Max(dots)
             IN  IF \A i \in 1..(d - 1) : filename[i] = "."
                 THEN filename
                 ELSE SubSeq(filename, 1, d - 1)

\* re.search(r'(.*?)\s*\[(.*?)\]', base_name) for a name that holds no line
\* break: the two groups of the match, or matched = FALSE.  The search
\* succeeds from the first character when some "]" follows the first "[";
\* the lazy first group ends where the whitespace in front of that "["
\* starts and the lazy second group ends at the first "]" after it.
TagMatch(base_name) ==
    LET opens == {i \in 1..Len(base_name) : base_name[i] = "["}
        closes(o) == {j \in (o + 1)..Len(base_name) : base_name[j] = "]"}
    IN  IF opens = {} \/ closes(Min(opens)) = {}
        THEN [matched |-> FALSE, title |-> <<>>, tags |-> <<>>]
        ELSE LET open == Min(opens)
                 blank == {k \in 1..open : \A m \in k..(open - 1) : IsSpace(base_name[m])}
             IN  [matched |-> TRUE,
                  title   |-> SubSeq(base_name, 1, Min(blank) - 1),
                  tags    |-> SubSeq(base_name, open + 1, Min(closes(open)) - 1)]

\* variant of ContentType: podcast is looked for before essay and reflection
ContentTypePodcastFirst(base_name) ==
    LET lower == Lower(base_name)
    IN  IF Contains(lower, <<"p", "o", "d", "c", "a", "s", "t">>) THEN "podcast"
        ELSE IF Contains(lower, <<"e", "s", "s", "a", "y">>) THEN "essay"
        ELSE IF Contains(lower, <<"r", "e", "f", "l", "e", "c", "t", "i", "o", "n">>)
        THEN "reflection"
        ELSE IF \/ Contains(lower, <<"s", "u", "b", "s", "t", "a", "c", "k">>)
                \/ Contains(lower, <<"n", "e", "w", "s", "l", "e", "t", "t", "e", "r">>)
        THEN "newsletter"
        ELSE "general"

\* the content_type chosen from the base name
ContentType(base_name) ==
    LET lower == Lower(base_name)
    IN  IF Contains(lower, <<"e", "s", "s", "a", "y">>) THEN "essay"
        ELSE IF Contains(lower, <<"r", "e", "f", "l", "e", "c", "t", "i", "o", "n">>)
        THEN "reflection"
        ELSE IF Contains(lower, <<"p", "o", "d", "c", "a", "s", "t">>) THEN "podcast"
        ELSE IF \/ Contains(lower, <<"s", "u", "b", "s", "t", "a", "c", "k">>)
                \/ Contains(lower, <<"n", "e", "w", "s", "l", "e", "t", "t", "e", "r">>)
        THEN "newsletter"
        ELSE "general"

extract_metadata_from_filename(filename) ==
    LET base_name == SplitExtBase(filename)
        tag_match == TagMatch(base_name)
        pieces == SplitOn(tag_match.tags, ",")
    IN  [title        |-> IF tag_match.matched THEN Strip(tag_match.title) ELSE base_name,
         tags         |-> IF tag_match.matched
                          THEN [i \in 1..Len(pieces) |-> Strip(pieces[i])]
                          ELSE <<>>,
         content_type |-> ContentType(base_name),
         source_file  |-> filename]

----------------------------------------------------------------------------
(* The inputs of the chunker.                                              *)

\* n words separated by single spaces
Words(n) == [i \in 1..(2 * n - 1) |-> IF i % 2 = 1 THEN W ELSE SP]

\* the paragraphs, of the given word counts, separated by one blank line
RECURSIVE Document(_)
Document(counts) ==
    IF counts = <<>> THEN <<>>
    ELSE Words(Head(counts))
         \o (IF Len(counts) > 1 THEN <<NL, NL>> ELSE <<>>)
         \o Document(Tail(counts))

WordCounts == {1, 2, 3}
SampleDocuments == {<<60, 60>>, <<60, 60, 60>>}

Texts ==
    SeqsUpTo(Alphabet, MaxLen)
    \cup {Document(c) : c \in SeqsUpTo(WordCounts, MaxParas)}
    \cup {Document(c) : c \in SampleDocuments}

ChunkSizes == {-1, 0, 2, 3, 4, 100}
ChunkOverlaps == {-1, 0, 1, 150}

\* "notes.txt"
NotesTxt == <<"n", "o", "t", "e", "s", ".", "t", "x", "t">>
EssayTxt == <<"e", "s", "s", "a", "y", ".", "t", "x", "t">>

Metadatas == {extract_metadata_from_filename(NotesTxt)}

Processor == [chunk_size |-> chunk_size, chunk_overlap |-> chunk_overlap]

\* the chunker at rest, while another component is exercised
IdleChunker ==
    /\ file_name = NotesTxt
    /\ text = <<>>
    /\ metadata \in Metadatas
    /\ chunk_size = 750
    /\ chunk_overlap = 150
    /\ chunks = <<>>
    /\ called = FALSE
    /\ earlier = <<>>

----------------------------------------------------------------------------
(* VectorStore: the similarity index.  The embedding provider and the      *)
(* storage engine are external; each call on them returns or raises.       *)

\* f"doc_{i}"
DocId(i) == "doc_" \o ToString(i)

\* variant of PositionalIds: numbered from 1
PositionalIdsFromOne(n) == [i \in 1..n |-> DocId(i)]

\* ids = [f"doc_{i}" for i in range(len(texts))]
PositionalIds(n) == [i \in 1..n |-> DocId(i - 1)]

\* embed_documents / embed_query: the provider's vector for a text
Embed(t) == <<WordCount(t), Len(t)>>

Ids(coll) == {coll[i].id : i \in 1..Len(coll)}

\* the (id, text, metadata) triples of a collection, embeddings left out
Records(coll) ==
    {<<coll[i].id, coll[i].document, coll[i].metadata>> : i \in 1..Len(coll)}

\* the records add_texts hands to collection.add for the given chunks
NewRecords(chunk_list) ==
    LET ids == PositionalIds(Len(chunk_list))
    IN  [i \in 1..Len(chunk_list) |->
            [id        |-> ids[i],
             document  |-> chunk_list[i].text,
             metadata  |-> chunk_list[i].metadata,
             embedding |-> Embed(chunk_list[i].text)]]

OnDuplicate == {"ignore", "replace", "error"}

\* collection.add(embeddings, documents, metadatas, ids).  An id the
\* collection already holds is skipped, overwritten or refused, depending
\* on the engine.
EngineAdd(coll, recs, policy) ==
    LET fresh == SelectSeq(recs, LAMBDA r : r.id \notin Ids(coll))
        incoming(id) == CHOOSE r \in {recs[i] : i \in 1..Len(recs)} : r.id = id
        replaced == [i \in 1..Len(coll) |->
                        IF coll[i].id \in {recs[k].id : k \in 1..Len(recs)}
                        THEN incoming(coll[i].id) ELSE coll[i]]
    IN  CASE policy = "ignore"  -> [ok |-> TRUE, collection |-> coll \o fresh]
          [] policy = "replace" -> [ok |-> TRUE, collection |-> replaced \o fresh]
          [] policy = "error"   ->
                IF Len(fresh) = Len(recs)
                THEN [ok |-> TRUE, collection |-> coll \o recs]
                ELSE [ok |-> FALSE, collection |-> coll]

\* collection.delete(where={})
EngineDeleteAll(coll) == <<>>

\* variant of add_texts: the embedding call is made again before the insert
add_texts_embed_twice(coll, chunk_list, policy, provider_ok, engine_ok) ==
    LET added == EngineAdd(coll, NewRecords(chunk_list), policy)
        made == <<"embed_documents", "embed_documents", "collection.add">>
    IN  IF ~provider_ok
        THEN [ok |-> FALSE, error |-> "embedding", raised |-> "embedding",
              collection |-> coll, ids |-> <<>>, calls |-> <<"embed_documents">>]
        ELSE IF ~engine_ok \/ ~added.ok
        THEN [ok |-> FALSE, error |-> "storage", raised |-> "storage",
              collection |-> coll, ids |-> <<>>, calls |-> made]
        ELSE [ok |-> TRUE, error |-> "", raised |-> "",
              collection |-> added.collection,
              ids |-> PositionalIds(Len(chunk_list)), calls |-> made]

\* add_texts(chunks): embed, then insert.  provider_ok and engine_ok say
\* whether the two external calls return.
add_texts(coll, chunk_list, policy, provider_ok, engine_ok) ==
    LET added == EngineAdd(coll, NewRecords(chunk_list), policy)
    IN  IF ~provider_ok
        THEN [ok |-> FALSE, error |-> "embedding", raised |-> "embedding",
              collection |-> coll, ids |-> <<>>,
              calls |-> <<"embed_documents">>]
        ELSE IF ~engine_ok \/ ~added.ok
        THEN [ok |-> FALSE, error |-> "storage", raised |-> "storage",
              collection |-> coll, ids |-> <<>>,
              calls |-> <<"embed_documents", "collection.add">>]
        ELSE [ok |-> TRUE, error |-> "", raised |-> "",
              collection |-> added.collection,
              ids |-> PositionalIds(Len(chunk_list)),
              calls |-> <<"embed_documents", "collection.add">>]

\* the distance the engine orders by: squared L2, the engine's default
Distance(a, b) ==
    (a[1] - b[1]) * (a[1] - b[1]) + (a[2] - b[2]) * (a[2] - b[2])

\* where=filter_criteria: None, or an exact match on every key of the filter
NoFilter == <<>>
Matches(rec, where) ==
    \A key \in DOMAIN where :
        key \in DOMAIN rec.metadata /\ rec.metadata[key] = where[key]

\* collection.query(query_embeddings=[q], n_results=k, where=where): the k
\* nearest matching records, nearest first; records at the same distance
\* keep their order of insertion.  Fewer than k matching records are all
\* returned.  The engine refuses n_results <= 0.
EngineQuery(coll, q, k, where) ==
    LET matching == SelectSeq(coll, LAMBDA rec : Matches(rec, where))
        d(i) == Distance(matching[i].embedding, q)
        before(j, i) == d(j) < d(i) \/ (d(j) = d(i) /\ j < i)
        rank(i) == 1 + Cardinality({j \in 1..Len(matching) : before(j, i)})
        nearest == [r \in 1..Len(matching) |->
                       CHOOSE i \in 1..Len(matching) : rank(i) = r]
        n == IF k < Len(matching) THEN k ELSE Len(matching)
    IN  IF k <= 0 THEN [ok |-> FALSE]
        ELSE [ok        |-> TRUE,
              ids       |-> [r \in 1..n |-> matching[nearest[r]].id],
              documents |-> [r \in 1..n |-> matching[nearest[r]].document],
              metadatas |-> [r \in 1..n |-> matching[nearest[r]].metadata],
              distances |-> [r \in 1..n |-> d(nearest[r])]]

\* variant of FormattedResults: the last result of the engine is left out
FormattedResultsButLast(results) ==
    [i \in 1..(Len(results.documents) - 1) |->
        [text     |-> results.documents[i],
         metadata |-> results.metadatas[i],
         id       |-> results.ids[i],
         distance |-> results.distances[i]]]

\* formatted_results: one dictionary per document the engine returned
FormattedResults(results) ==
    [i \in 1..Len(results.documents) |->
        [text     |-> results.documents[i],
         metadata |-> results.metadatas[i],
         id       |-> results.ids[i],
         distance |-> results.distances[i]]]

\* variant of similarity_search: a failure leaves as an error of its own
similarity_search_wrapped(coll, query, n_results, filter_criteria, provider_ok, engine_ok) ==
    LET found == EngineQuery(coll, Embed(query), n_results, filter_criteria)
    IN  IF ~provider_ok
        THEN [ok |-> FALSE, error |-> "search", raised |-> "embedding",
              results |-> <<>>, calls |-> <<"embed_query">>]
        ELSE IF ~engine_ok \/ ~found.ok
        THEN [ok |-> FALSE, error |-> "search", raised |-> "storage",
              results |-> <<>>, calls |-> <<"embed_query", "collection.query">>]
        ELSE [ok |-> TRUE, error |-> "", raised |-> "",
              results |-> FormattedResults(found),
              calls |-> <<"embed_query", "collection.query">>]

\* similarity_search(query, n_results, filter_criteria): embed the query,
\* then query the engine.  provider_ok and engine_ok say whether the two
\* external calls return.
similarity_search(coll, query, n_results, filter_criteria, provider_ok, engine_ok) ==
    LET found == EngineQuery(coll, Embed(query), n_results, filter_criteria)
    IN  IF ~provider_ok
        THEN [ok |-> FALSE, error |-> "embedding", raised |-> "embedding",
              results |-> <<>>, calls |-> <<"embed_query">>]
        ELSE IF ~engine_ok \/ ~found.ok
        THEN [ok |-> FALSE, error |-> "storage", raised |-> "storage",
              results |-> <<>>, calls |-> <<"embed_query", "collection.query">>]
        ELSE [ok |-> TRUE, error |-> "", raised |-> "",
              results |-> FormattedResults(found),
              calls |-> <<"embed_query", "collection.query">>]

\* variant of ContentTypeOf: a record without content_type counts as general
ContentTypeOfGeneral(md) ==
    IF "content_type" \in DOMAIN md THEN md.content_type ELSE "general"

\* metadata.get("content_type", "unknown")
ContentTypeOf(md) ==
    IF "content_type" \in DOMAIN md THEN md.content_type ELSE "unknown"

\* get_collection_stats(): collection.count(), then collection.get() and the
\* grouping of its metadatas by content type.  count_ok and get_ok say
\* whether the two engine calls return.
get_collection_stats(coll, count_ok, get_ok) ==
    LET types == {ContentTypeOf(coll[i].metadata) : i \in 1..Len(coll)}
        content_types ==
            [ct \in types |->
                Cardinality({i \in 1..Len(coll) : ContentTypeOf(coll[i].metadata) = ct})]
    IN  IF ~count_ok
        THEN [ok |-> FALSE, error |-> "storage", raised |-> "storage",
              stats |-> <<>>, calls |-> <<"collection.count">>]
        ELSE IF ~get_ok
        THEN [ok |-> FALSE, error |-> "storage", raised |-> "storage",
              stats |-> <<>>, calls |-> <<"collection.count", "collection.get">>]
        ELSE [ok |-> TRUE, error |-> "", raised |-> "",
              stats |-> [total_documents |-> Len(coll), content_types |-> content_types],
              calls |-> <<"collection.count", "collection.get">>]

\* The JSON value json.dump writes for the metadata value v under key k:
\* chunk_id and word_count are numbers, tags is an array of strings, the
\* other values are strings.
ToJson(k, v) ==
    CASE k \in {"chunk_id", "word_count"} -> <<"number", v>>
      [] k = "tags" -> <<"array", [i \in 1..Len(v) |-> <<"string", v[i]>>]>>
      [] OTHER -> <<"string", v>>

\* the Python value json.load builds for a JSON value
FromJson(j) ==
    IF j[1] = "array" THEN [i \in 1..Len(j[2]) |-> j[2][i][2]] ELSE j[2]

\* variant of SavedDocuments: the last record is left out
SavedDocumentsButLast(coll) ==
    [i \in 1..(Len(coll) - 1) |->
        [id |-> coll[i].id, text |-> coll[i].document, metadata |-> coll[i].metadata]]

\* the list save_to_disk builds from collection.get()
SavedDocuments(coll) ==
    [i \in 1..Len(coll) |->
        [id |-> coll[i].id, text |-> coll[i].document, metadata |-> coll[i].metadata]]

\* json.dump(documents, f)
JsonDump(documents) ==
    [i \in 1..Len(documents) |->
        [id       |-> <<"string", documents[i].id>>,
         text     |-> <<"string", documents[i].text>>,
         metadata |-> [k \in DOMAIN documents[i].metadata |->
                          ToJson(k, documents[i].metadata[k])]]]

\* json.load(f)
JsonLoad(content) ==
    [i \in 1..Len(content) |->
        [id       |-> FromJson(content[i].id),
         text     |-> FromJson(content[i].text),
         metadata |-> [k \in DOMAIN content[i].metadata |->
                          FromJson(content[i].metadata[k])]]]

\* a file: whether it can be opened, whether json.load accepts its content,
\* and the value json.load returns
NoFile == [exists |-> FALSE, valid |-> FALSE, content |-> <<>>]
CorruptFile == [exists |-> TRUE, valid |-> FALSE, content |-> <<>>]

\* open(input_file) and json.load(f) both return
Readable(file) == file.exists /\ file.valid

\* the records load_from_disk hands to collection.add
LoadedRecords(documents) ==
    [i \in 1..Len(documents) |->
        [id        |-> documents[i].id,
         document  |-> documents[i].text,
         metadata  |-> documents[i].metadata,
         embedding |-> Embed(documents[i].text)]]

\* variant of load_from_disk: the collection is not cleared first
load_from_disk_no_clear(coll, file, policy, clear_ok, provider_ok, engine_ok) ==
    LET added == EngineAdd(coll, LoadedRecords(JsonLoad(file.content)), policy)
    IN  IF ~Readable(file)
        THEN [ok |-> FALSE, error |-> "file", raised |-> "file",
              collection |-> coll, calls |-> <<>>]
        ELSE IF ~clear_ok
        THEN [ok |-> FALSE, error |-> "storage", raised |-> "storage",
              collection |-> coll, calls |-> <<"collection.delete">>]
        ELSE IF ~provider_ok
        THEN [ok |-> FALSE, error |-> "embedding", raised |-> "embedding",
              collection |-> coll,
              calls |-> <<"collection.delete", "embed_documents">>]
        ELSE IF ~engine_ok \/ ~added.ok
        THEN [ok |-> FALSE, error |-> "storage", raised |-> "storage",
              collection |-> coll,
              calls |-> <<"collection.delete", "embed_documents", "collection.add">>]
        ELSE [ok |-> TRUE, error |-> "", raised |-> "",
              collection |-> added.collection,
              calls |-> <<"collection.delete", "embed_documents", "collection.add">>]

\* variant of load_from_disk: the collection is cleared before the file is
\* read
load_from_disk_clear_first(coll, file, policy, clear_ok, provider_ok, engine_ok) ==
    LET cleared == EngineDeleteAll(coll)
        added == EngineAdd(cleared, LoadedRecords(JsonLoad(file.content)), policy)
    IN  IF ~clear_ok
        THEN [ok |-> FALSE, error |-> "storage", raised |-> "storage",
              collection |-> coll, calls |-> <<"collection.delete">>]
        ELSE IF ~Readable(file)
        THEN [ok |-> FALSE, error |-> "file", raised |-> "file",
              collection |-> cleared, calls |-> <<"collection.delete">>]
        ELSE IF ~provider_ok
        THEN [ok |-> FALSE, error |-> "embedding", raised |-> "embedding",
              collection |-> cleared,
              calls |-> <<"collection.delete", "embed_documents">>]
        ELSE IF ~engine_ok \/ ~added.ok
        THEN [ok |-> FALSE, error |-> "storage", raised |-> "storage",
              collection |-> cleared,
              calls |-> <<"collection.delete", "embed_documents", "collection.add">>]
        ELSE [ok |-> TRUE, error |-> "", raised |-> "",
              collection |-> added.collection,
              calls |-> <<"collection.delete", "embed_documents", "collection.add">>]

\* load_from_disk(input_file): read, clear, embed, insert.  clear_ok,
\* provider_ok and engine_ok say whether the external calls return.
load_from_disk(coll, file, policy, clear_ok, provider_ok, engine_ok) ==
    LET cleared == EngineDeleteAll(coll)
        added == EngineAdd(cleared, LoadedRecords(JsonLoad(file.content)), policy)
    IN  IF ~Readable(file)
        THEN [ok |-> FALSE, error |-> "file", raised |-> "file",
              collection |-> coll, calls |-> <<>>]
        ELSE IF ~clear_ok
        THEN [ok |-> FALSE, error |-> "storage", raised |-> "storage",
              collection |-> coll, calls |-> <<"collection.delete">>]
        ELSE IF ~provider_ok
        THEN [ok |-> FALSE, error |-> "embedding", raised |-> "embedding",
              collection |-> cleared,
              calls |-> <<"collection.delete", "embed_documents">>]
        ELSE IF ~engine_ok \/ ~added.ok
        THEN [ok |-> FALSE, error |-> "storage", raised |-> "storage",
              collection |-> cleared,
              calls |-> <<"collection.delete", "embed_documents", "collection.add">>]
        ELSE [ok |-> TRUE, error |-> "", raised |-> "",
              collection |-> added.collection,
              calls |-> <<"collection.delete", "embed_documents", "collection.add">>]

\* The chunk lists handed to add_texts are lists the chunker returns for a
\* file: notes.txt with paragraphs of 2, 1, 2, ... words, cut into one chunk
\* per paragraph, and essay.txt with a single word; and a list a caller has
\* built itself, whose metadata has a title only.
PlainChunk == [text |-> Words(3), metadata |-> [title |-> <<"t">>]]
StoreProcessor == [chunk_size |-> 2, chunk_overlap |-> 0]
AlternatingCounts(n) == [i \in 1..n |-> IF i % 2 = 1 THEN 2 ELSE 1]
ChunkLists ==
    {chunk_text(StoreProcessor, Document(AlternatingCounts(n)),
                extract_metadata_from_filename(NotesTxt)) : n \in 1..MaxAdd}
    \cup {chunk_text(StoreProcessor, Document(<<1>>),
                     extract_metadata_from_filename(EssayTxt))}
    \cup {<<PlainChunk>>}


----------------------------------------------------------------------------
(* RAGWritingAssistant and the files of the corpus directory.              *)

\* TextProcessor(chunk_size=750, chunk_overlap=150)
AssistantProcessor == [chunk_size |-> 750, chunk_overlap |-> 150]

\* "a.txt", "b.txt", "a.pdf"
ATxt == <<"a", ".", "t", "x", "t">>
BTxt == <<"b", ".", "t", "x", "t">>
APdf == <<"a", ".", "p", "d", "f">>

\* f.endswith('.txt')
EndsWithTxt(f) == Len(f) >= 4 /\ SubSeq(f, Len(f) - 3, Len(f)) = <<".", "t", "x", "t">>

\* the order in which os.listdir names the files
ListingOrder == <<ATxt, BTxt, EssayTxt>>

\* a file of the corpus directory: its text, or a file that cannot be read
File(content) == [readable |-> TRUE, content |-> content]
Unreadable == [readable |-> FALSE, content |-> <<>>]

\* process_file(file_path): read, extract the metadata, chunk; any
\* exception gives the empty list
process_file(self, dir, name) ==
    IF name \notin DOMAIN dir \/ ~dir[name].readable THEN <<>>
    ELSE chunk_text(self, dir[name].content, extract_metadata_from_filename(name))

RECURSIVE ProcessFiles(_, _, _)
ProcessFiles(self, dir, files) ==
    IF files = <<>> THEN <<>>
    ELSE process_file(self, dir, Head(files)) \o ProcessFiles(self, dir, Tail(files))

\* the .txt files of the directory, in the order os.listdir names them
TextFiles(dir) ==
    SelectSeq(ListingOrder, LAMBDA f : f \in DOMAIN dir /\ EndsWithTxt(f))

\* variant of process_directory: a file that cannot be read ends the batch
\* with nothing
process_directory_all_or_nothing(self, dir) ==
    IF \E f \in DOMAIN dir : EndsWithTxt(f) /\ ~dir[f].readable THEN <<>>
    ELSE ProcessFiles(self, dir, TextFiles(dir))

\* process_directory(directory_path)
process_directory(self, dir) == ProcessFiles(self, dir, TextFiles(dir))

\* generate_content(query, style_adjustments=None, n_results=5)
DefaultNResults == 5

\* the message generate_content returns when retrieval finds nothing
NotEnoughContext ==
    "I don't have enough context to generate content in your style. Please add more text files to your corpus."

\* what the language model may answer
LlmResponses == {"generated", NotEnoughContext}

\* variant of generate_content: the language model is asked whatever the
\* retrieval returned
generate_content_always(coll, query, provider_ok, engine_ok, llm_ok, response) ==
    LET found == similarity_search(coll, query, DefaultNResults, NoFilter,
                                   provider_ok, engine_ok)
    IN  IF ~found.ok
        THEN [ok |-> FALSE, error |-> found.error, raised |-> found.raised,
              calls |-> found.calls, context_docs |-> <<>>, content |-> ""]
        ELSE IF ~llm_ok
        THEN [ok |-> FALSE, error |-> "llm", raised |-> "llm",
              calls |-> found.calls \o <<"llm.invoke">>,
              context_docs |-> found.results, content |-> ""]
        ELSE [ok |-> TRUE, error |-> "", raised |-> "",
              calls |-> found.calls \o <<"llm.invoke">>,
              context_docs |-> found.results, content |-> response]

\* generate_content(query): context_docs = retriever(query), the fixed
\* message when there are none, else generate_with_style(query, context_docs)
generate_content(coll, query, provider_ok, engine_ok, llm_ok, response) ==
    LET found == similarity_search(coll, query, DefaultNResults, NoFilter,
                                   provider_ok, engine_ok)
    IN  IF ~found.ok
        THEN [ok |-> FALSE, error |-> found.error, raised |-> found.raised,
              calls |-> found.calls, context_docs |-> <<>>, content |-> ""]
        ELSE IF found.results = <<>>
        THEN [ok |-> TRUE, error |-> "", raised |-> "",
              calls |-> found.calls, context_docs |-> <<>>,
              content |-> NotEnoughContext]
        ELSE IF ~llm_ok
        THEN [ok |-> FALSE, error |-> "llm", raised |-> "llm",
              calls |-> found.calls \o <<"llm.invoke">>,
              context_docs |-> found.results, content |-> ""]
        ELSE [ok |-> TRUE, error |-> "", raised |-> "",
              calls |-> found.calls \o <<"llm.invoke">>,
              context_docs |-> found.results, content |-> response]

----------------------------------------------------------------------------
(* The Flask application: request threads and initialization threads.      *)

Requests == {"r1", "r2", "r3"}
InitThreads == {"t1", "t2"}
Threads == Requests \cup InitThreads

\* '.' in filename and filename.rsplit('.', 1)[1].lower() in ALLOWED_EXTENSIONS
allowed_file(filename) ==
    LET dots == {i \in 1..Len(filename) : filename[i] = "."}
    IN  /\ dots # {}
        /\ Lower(SubSeq(filename, Max(dots) + 1, Len(filename))) = <<"t", "x", "t">>

\* the characters werkzeug's secure_filename keeps
SafeChar(c) ==
    \/ \E k \in 1..26 : c = UpperCase[k] \/ c = LowerCase[k]
    \/ c \in {"0", "1", "2", "3", "4", "5", "6", "7", "8", "9", "_", ".", "-"}

\* "_".join(s.split()) for a string s without whitespace at its ends
RECURSIVE JoinWords(_)
JoinWords(s) ==
    IF s = <<>> THEN <<>>
    ELSE IF ~IsSpace(Head(s)) THEN <<Head(s)>> \o JoinWords(Tail(s))
    ELSE IF IsSpace(s[2]) THEN JoinWords(Tail(s))
    ELSE <<"_">> \o JoinWords(Tail(s))

\* secure_filename(filename): path separators become spaces, runs of
\* whitespace become "_", unsafe characters are dropped, and dots and
\* underscores at both ends are stripped
secure_filename(filename) ==
    LET flat == [i \in 1..Len(filename) |-> IF filename[i] = "/" THEN SP ELSE filename[i]]
        safe == SelectSeq(JoinWords(Strip(flat)), SafeChar)
        inner == {i \in 1..Len(safe) : safe[i] \notin {".", "_"}}
    IN  IF inner = {} THEN <<>> ELSE SubSeq(safe, Min(inner), Max(inner))

\* what a client may post to /upload: no file part, or a file name and text
NoUpload == [present |-> FALSE, filename |-> <<>>, content |-> <<>>]
Uploads ==
    {NoUpload}
    \cup {[present |-> TRUE, filename |-> f, content |-> Words(2)] : f \in {<<>>, APdf, ATxt}}
    \cup {[present |-> TRUE, filename |-> ATxt, content |-> <<>>]}

NoLocals ==
    [reprocess |-> FALSE, total |-> 0, chunks |-> <<>>, file |-> <<>>,
     content |-> <<>>, returned |-> 0, response |-> 0]

\* the corpus directories and collections the application may start with
InitialCorpora == {<<>>, [f \in {BTxt} |-> File(Words(1))]}
InitialCollections ==
    {<<>>,
     NewRecords(chunk_text(StoreProcessor, Document(<<2>>),
                           extract_metadata_from_filename(NotesTxt)))}

\* the web application at rest, while another component is exercised
IdleWeb ==
    /\ corpus = <<>>
    /\ rag_assistant = FALSE
    /\ initialization_status = "not_started"
    /\ pc = [t \in Threads |-> "unborn"]
    /\ local = [t \in Threads |-> NoLocals]

----------------------------------------------------------------------------
(* The calls made on a VectorStore.                                        *)

NoCall ==
    [op |-> "none", ok |-> TRUE, error |-> "", raised |-> "", ids |-> <<>>,
     calls |-> <<>>, results |-> <<>>, args |-> <<>>]

\* what a call left behind: its outcome, the external calls it made in
\* order, and for a search its arguments and results
Call(op, r, ids, results, args) ==
    [op |-> op, ok |-> r.ok, error |-> r.error, raised |-> r.raised, ids |-> ids,
     calls |-> r.calls, results |-> results, args |-> args]

\* the store at rest, while another component is exercised
IdleStore ==
    /\ collection = <<>>
    /\ disk = NoFile
    /\ on_duplicate = "ignore"
    /\ last = NoCall
    /\ prev_collection = <<>>
    /\ persisted = {}
    /\ add_ids = <<>>

InitStore ==
    /\ IdleChunker
    /\ IdleWeb
    /\ collection = <<>>
    /\ disk \in {NoFile, CorruptFile}
    /\ on_duplicate \in OnDuplicate
    /\ last = NoCall
    /\ prev_collection = <<>>
    /\ persisted = {}
    /\ add_ids = <<>>

\* a call of add_texts(chunk_list)
AddTexts(chunk_list) ==
    \E provider_ok, engine_ok \in BOOLEAN :
        LET r == add_texts(collection, chunk_list, on_duplicate, provider_ok, engine_ok)
        IN  /\ collection' = r.collection
            /\ last' = Call("add_texts", r, r.ids, <<>>, <<>>)
            /\ prev_collection' = collection
            /\ add_ids' = IF r.ok
                          THEN <<r.ids>> \o SubSeq(add_ids, 1, IF add_ids = <<>> THEN 0 ELSE 1)
                          ELSE add_ids
            /\ UNCHANGED <<disk, on_duplicate, persisted>>
            /\ UNCHANGED <<chunkerVars, webVars>>

\* a call of save_to_disk(output_file)
SaveToDisk ==
    \E engine_ok \in BOOLEAN :
        /\ IF engine_ok
           THEN /\ disk' = [exists |-> TRUE, valid |-> TRUE,
                            content |-> JsonDump(SavedDocuments(collection))]
                /\ persisted' = Records(collection)
           ELSE UNCHANGED <<disk, persisted>>
        /\ last' = Call("save_to_disk",
                        [ok |-> engine_ok,
                         error |-> IF engine_ok THEN "" ELSE "storage",
                         raised |-> IF engine_ok THEN "" ELSE "storage",
                         calls |-> <<"collection.get">>],
                        <<>>, <<>>, <<>>)
        /\ prev_collection' = collection
        /\ UNCHANGED <<collection, on_duplicate, add_ids>>
        /\ UNCHANGED <<chunkerVars, webVars>>

\* a call of load_from_disk(input_file)
LoadFromDisk ==
    \E clear_ok, provider_ok, engine_ok \in BOOLEAN :
        LET r == load_from_disk(collection, disk, on_duplicate,
                                clear_ok, provider_ok, engine_ok)
        IN  /\ collection' = r.collection
            /\ last' = Call("load_from_disk", r, <<>>, <<>>, <<>>)
            /\ prev_collection' = collection
            /\ add_ids' = IF Readable(disk) /\ clear_ok THEN <<>> ELSE add_ids
            /\ UNCHANGED <<disk, on_duplicate, persisted>>
            /\ UNCHANGED <<chunkerVars, webVars>>

\* the arguments of the searches
Queries == {Words(1)}
NResults == {0, 1, 3}
Filters == {NoFilter, [content_type |-> "essay"]}

\* a call of similarity_search(query, n_results, filter_criteria)
SimilaritySearch(query, n_results, filter_criteria) ==
    \E provider_ok, engine_ok \in BOOLEAN :
        LET r == similarity_search(collection, query, n_results, filter_criteria,
                                   provider_ok, engine_ok)
        IN  /\ last' = Call("similarity_search", r, <<>>, r.results,
                            <<query, n_results, filter_criteria>>)
            /\ prev_collection' = collection
            /\ UNCHANGED <<collection, disk, on_duplicate, persisted, add_ids>>
            /\ UNCHANGED <<chunkerVars, webVars>>

\* a call of get_collection_stats()
GetCollectionStats ==
    \E count_ok, get_ok \in BOOLEAN :
        LET r == get_collection_stats(collection, count_ok, get_ok)
        IN  /\ last' = Call("get_collection_stats", r, <<>>, r.stats, <<>>)
            /\ prev_collection' = collection
            /\ UNCHANGED <<collection, disk, on_duplicate, persisted, add_ids>>
            /\ UNCHANGED <<chunkerVars, webVars>>

\* a call of generate_content(query) on the assistant that owns the store
GenerateContent(query) ==
    \E provider_ok, engine_ok, llm_ok \in BOOLEAN, response \in LlmResponses :
        LET r == generate_content(collection, query, provider_ok, engine_ok,
                                  llm_ok, response)
        IN  /\ last' = Call("generate_content", r, <<>>,
                            [context_docs |-> r.context_docs, content |-> r.content],
                            <<query>>)
            /\ prev_collection' = collection
            /\ UNCHANGED <<collection, disk, on_duplicate, persisted, add_ids>>
            /\ UNCHANGED <<chunkerVars, webVars>>

NextStore ==
    \/ \E chunk_list \in ChunkLists : AddTexts(chunk_list)
    \/ \E query \in Queries : GenerateContent(query)
    \/ GetCollectionStats
    \/ SaveToDisk
    \/ LoadFromDisk
    \/ \E query \in Queries, n_results \in NResults, filter_criteria \in Filters :
            SimilaritySearch(query, n_results, filter_criteria)

Spec == InitStore /\ [][NextStore]_vars

----------------------------------------------------------------------------
(* The calls made on a TextProcessor.                                      *)

InitChunker ==
    /\ IdleStore
    /\ IdleWeb
    /\ file_name = NotesTxt
    /\ text \in Texts
    /\ metadata \in Metadatas
    /\ chunk_size \in ChunkSizes
    /\ chunk_overlap \in ChunkOverlaps
    /\ chunks = <<>>
    /\ called = FALSE
    /\ earlier = <<>>

\* a call of chunk_text(text, metadata), and a second one after it
\* with the same processor, text and mapping
ChunkText ==
    /\ ~called \/ earlier = <<>>
    /\ chunks' = chunk_text(Processor, text, metadata)
    /\ metadata' = CallerMetadata(metadata, chunk_text(Processor, text, metadata))
    /\ earlier' = IF called THEN <<chunks>> ELSE <<>>
    /\ called' = TRUE
    /\ UNCHANGED <<file_name, text, chunk_size, chunk_overlap>>
    /\ UNCHANGED <<storeVars, webVars>>

NextChunker == ChunkText

SpecChunker == InitChunker /\ [][NextChunker]_vars

----------------------------------------------------------------------------
(* extract_metadata_from_filename on file names with and without a         *)
(* bracketed tag list and with and without content-type keywords.          *)

Txt == <<".", "t", "x", "t">>

\* names over a title letter, a blank, the two brackets and the comma
NameAlphabet == {"a", " ", "[", "]", ","}
BracketNames == {body \o Txt : body \in SeqsUpTo(NameAlphabet, MaxName)}

\* names made of one or two of the keywords, in lower case or capitalised
Keywords ==
    {<<"e", "s", "s", "a", "y">>,
     <<"r", "e", "f", "l", "e", "c", "t", "i", "o", "n">>,
     <<"p", "o", "d", "c", "a", "s", "t">>,
     <<"s", "u", "b", "s", "t", "a", "c", "k">>,
     <<"n", "e", "w", "s", "l", "e", "t", "t", "e", "r">>}
Capitalised(word) ==
    [word EXCEPT ![1] = UpperCase[CHOOSE k \in 1..26 : LowerCase[k] = word[1]]]
NameParts ==
    Keywords \cup {Capitalised(word) : word \in Keywords} \cup {<<"n", "o", "t", "e", "s">>}
KeywordNames ==
    {first \o Txt : first \in NameParts}
    \cup {first \o <<"_">> \o second \o Txt : first, second \in NameParts}

\* names with more than one dot, or none
DottedNames ==
    {<<"a", ".", "b", ".", "t", "x", "t">>, <<"a">>, <<".", "t", "x", "t">>,
     <<"a", " ", "[", "a", ".", "a", "]">>}

Filenames == BracketNames \cup KeywordNames \cup DottedNames

InitMetadata ==
    /\ IdleStore
    /\ IdleWeb
    /\ file_name \in Filenames
    /\ text = <<>>
    /\ metadata \in Metadatas
    /\ chunk_size = 750
    /\ chunk_overlap = 150
    /\ chunks = <<>>
    /\ called = FALSE
    /\ earlier = <<>>

\* a call of extract_metadata_from_filename(filename)
ExtractMetadata ==
    /\ ~called
    /\ metadata' = extract_metadata_from_filename(file_name)
    /\ called' = TRUE
    /\ UNCHANGED <<file_name, text, chunk_size, chunk_overlap, chunks, earlier>>
    /\ UNCHANGED <<storeVars, webVars>>

NextMetadata == ExtractMetadata

SpecMetadata == InitMetadata /\ [][NextMetadata]_vars

----------------------------------------------------------------------------
(* process_directory on a directory some of whose files cannot be read.    *)

\* what a file of the directory may be: unreadable, empty, one paragraph,
\* or several paragraphs that make several chunks
FileStates == {Unreadable, File(<<>>), File(Words(1)), File(Document(<<2, 1, 2>>))}

\* the directories: any of the four files may be missing
Directories ==
    {dir \in UNION {[names -> FileStates] : names \in SUBSET {ATxt, BTxt, EssayTxt, APdf}} :
        APdf \in DOMAIN dir => dir[APdf] = File(Words(1))}

InitBatch ==
    /\ IdleStore
    /\ file_name = NotesTxt
    /\ text = <<>>
    /\ metadata \in Metadatas
    /\ chunk_size \in {2, 750}
    /\ chunk_overlap \in {0, 1}
    /\ chunks = <<>>
    /\ called = FALSE
    /\ earlier = <<>>
    /\ corpus \in Directories
    /\ rag_assistant = FALSE
    /\ initialization_status = "not_started"
    /\ pc = [t \in Threads |-> "unborn"]
    /\ local = [t \in Threads |-> NoLocals]

\* a call of process_directory(directory_path)
ProcessDirectory ==
    /\ ~called
    /\ chunks' = process_directory(Processor, corpus)
    /\ called' = TRUE
    /\ UNCHANGED <<file_name, text, metadata, chunk_size, chunk_overlap, earlier>>
    /\ UNCHANGED <<storeVars, webVars>>

NextBatch == ProcessDirectory

SpecBatch == InitBatch /\ [][NextBatch]_vars

----------------------------------------------------------------------------
(* The steps of the Flask application.  Each request is served by its own  *)
(* thread; a step is what a thread does between two points at which        *)
(* another thread may run: one call on the embedding provider, the storage *)
(* engine or the file system.  The history variables last, prev_collection *)
(* and add_ids describe the calls of the sequential specification Spec and *)
(* are left alone here.                                                    *)

InitWeb ==
    /\ IdleChunker
    /\ collection \in InitialCollections
    /\ disk = NoFile
    /\ on_duplicate \in OnDuplicate
    /\ last = NoCall
    /\ prev_collection = <<>>
    /\ persisted = {}
    /\ add_ids = <<>>
    /\ corpus \in InitialCorpora
    /\ rag_assistant = FALSE
    /\ initialization_status = "not_started"
    /\ pc = [t \in Threads |-> "unborn"]
    /\ local = [t \in Threads |-> NoLocals]

\* not rag_assistant or initialization_status["status"] != "complete"
NotInitialized == ~rag_assistant \/ initialization_status # "complete"

Goto(t, label) == pc' = [pc EXCEPT ![t] = label]

\* the request thread r returns a response with the given status code
Respond(r, code) ==
    /\ pc' = [pc EXCEPT ![r] = "finished"]
    /\ local' = [local EXCEPT ![r] = [NoLocals EXCEPT !.response = code]]

\* variant of Raise: an exception ends the thread and nothing is recorded
RaiseUnrecorded(t) ==
    /\ Goto(t, "finished")
    /\ local' = [local EXCEPT ![t] = NoLocals]

\* an exception leaves the call the thread is in: the handlers of a request
\* answer 500, init_thread records the error
Raise(t) ==
    IF t \in InitThreads
    THEN /\ Goto(t, "init_failed")
         /\ local' = [local EXCEPT ![t] = NoLocals]
    ELSE Respond(t, 500)

\* index(): GET /.  It starts the initialization when none has started;
\* the get_corpus_stats() it makes afterwards only reads the collection and
\* its failure is logged, not returned
Index(r) ==
    /\ pc[r] = "unborn"
    /\ IF initialization_status = "not_started"
       THEN \E t \in InitThreads :
                /\ pc[t] = "unborn"
                /\ pc' = [pc EXCEPT ![t] = "init_begin", ![r] = "finished"]
       ELSE Goto(r, "finished")
    /\ local' = [local EXCEPT ![r] = [NoLocals EXCEPT !.response = 200]]
    /\ UNCHANGED <<corpus, rag_assistant, initialization_status>>
    /\ UNCHANGED <<chunkerVars, storeVars>>

\* init_thread: initialization_status = in_progress
InitBegin(t) ==
    /\ pc[t] = "init_begin"
    /\ initialization_status' = "in_progress"
    /\ Goto(t, "init_construct")
    /\ UNCHANGED <<corpus, rag_assistant, local>>
    /\ UNCHANGED <<chunkerVars, storeVars>>

\* init_thread: rag_assistant = RAGWritingAssistant(...), then
\* initialization_status = in_progress and the call of process_corpus()
InitConstruct(t) ==
    /\ pc[t] = "init_construct"
    /\ \E constructed \in BOOLEAN :
        IF constructed
        THEN /\ rag_assistant' = TRUE
             /\ initialization_status' = "in_progress"
             /\ Goto(t, "pc_stats")
             /\ local' = [local EXCEPT ![t] = [NoLocals EXCEPT !.reprocess = FALSE]]
        ELSE /\ Raise(t)
             /\ UNCHANGED <<rag_assistant, initialization_status>>
    /\ UNCHANGED corpus
    /\ UNCHANGED <<chunkerVars, storeVars>>

\* init_thread: initialization_status = complete
InitComplete(t) ==
    /\ pc[t] = "init_complete"
    /\ initialization_status' = "complete"
    /\ Goto(t, "finished")
    /\ local' = [local EXCEPT ![t] = NoLocals]
    /\ UNCHANGED <<corpus, rag_assistant>>
    /\ UNCHANGED <<chunkerVars, storeVars>>

\* init_thread: the except clause, initialization_status = error
InitFailed(t) ==
    /\ pc[t] = "init_failed"
    /\ initialization_status' = "error"
    /\ Goto(t, "finished")
    /\ UNCHANGED <<corpus, rag_assistant, local>>
    /\ UNCHANGED <<chunkerVars, storeVars>>

\* upload_file(): POST /upload, up to the call of file.save
Upload(r, up) ==
    /\ pc[r] = "unborn"
    /\ IF NotInitialized THEN Respond(r, 503)
       ELSE IF ~up.present \/ up.filename = <<>> \/ ~allowed_file(up.filename)
       THEN Respond(r, 400)
       ELSE /\ Goto(r, "upload_save")
            /\ local' = [local EXCEPT ![r] =
                            [NoLocals EXCEPT !.file = secure_filename(up.filename),
                                             !.content = up.content]]
    /\ UNCHANGED <<corpus, rag_assistant, initialization_status>>
    /\ UNCHANGED <<chunkerVars, storeVars>>

\* upload_file(): file.save(file_path)
UploadSave(r) ==
    /\ pc[r] = "upload_save"
    /\ corpus' = (local[r].file :> File(local[r].content)) @@ corpus
    /\ Goto(r, "add_file")
    /\ UNCHANGED <<rag_assistant, initialization_status, local>>
    /\ UNCHANGED <<chunkerVars, storeVars>>

\* add_file(file_path): process_file, then add_texts when there are chunks
AddFile(r) ==
    /\ pc[r] = "add_file"
    /\ LET file_chunks == process_file(AssistantProcessor, corpus, local[r].file)
       IN  /\ local' = [local EXCEPT ![r] = [NoLocals EXCEPT !.chunks = file_chunks]]
           /\ Goto(r, IF file_chunks # <<>> THEN "add_embed" ELSE "save_state")
    /\ UNCHANGED <<corpus, rag_assistant, initialization_status>>
    /\ UNCHANGED <<chunkerVars, storeVars>>

\* reprocess_corpus(): POST /reprocess, up to the call of process_corpus
Reprocess(r) ==
    /\ pc[r] = "unborn"
    /\ IF NotInitialized THEN Respond(r, 503)
       ELSE /\ Goto(r, "pc_stats")
            /\ local' = [local EXCEPT ![r] = [NoLocals EXCEPT !.reprocess = TRUE]]
    /\ UNCHANGED <<corpus, rag_assistant, initialization_status>>
    /\ UNCHANGED <<chunkerVars, storeVars>>

\* what a client may post to /generate: no JSON body, or a query
NoBody == [present |-> FALSE, query |-> <<>>]
Bodies == {NoBody} \cup {[present |-> TRUE, query |-> q] : q \in {<<>>, Words(1)}}

\* generate(): POST /generate, up to the call of generate_content.  A
\* request without a JSON body raises inside the try block
Generate(r, body) ==
    /\ pc[r] = "unborn"
    /\ IF NotInitialized THEN Respond(r, 503)
       ELSE IF ~body.present THEN Respond(r, 500)
       ELSE IF body.query = <<>> THEN Respond(r, 400)
       ELSE /\ Goto(r, "generate")
            /\ local' = [local EXCEPT ![r] = [NoLocals EXCEPT !.content = body.query]]
    /\ UNCHANGED <<corpus, rag_assistant, initialization_status>>
    /\ UNCHANGED <<chunkerVars, storeVars>>

\* generate(): content = rag_assistant.generate_content(query, ...), which
\* reads the collection once, and the response
GenerateAnswer(r) ==
    /\ pc[r] = "generate"
    /\ \E provider_ok, engine_ok, llm_ok \in BOOLEAN, response \in LlmResponses :
        LET g == generate_content(collection, local[r].content, provider_ok,
                                  engine_ok, llm_ok, response)
        IN  Respond(r, IF g.ok THEN 200 ELSE 500)
    /\ UNCHANGED <<corpus, rag_assistant, initialization_status>>
    /\ UNCHANGED <<chunkerVars, storeVars>>

\* corpus(): GET /corpus, up to the call of get_corpus_stats
Corpus(r) ==
    /\ pc[r] = "unborn"
    /\ IF NotInitialized THEN Respond(r, 503)
       ELSE /\ Goto(r, "corpus_stats")
            /\ local' = [local EXCEPT ![r] = NoLocals]
    /\ UNCHANGED <<corpus, rag_assistant, initialization_status>>
    /\ UNCHANGED <<chunkerVars, storeVars>>

\* corpus(): stats = rag_assistant.get_corpus_stats(), the listing of the
\* corpus directory, and the response
CorpusStats(r) ==
    /\ pc[r] = "corpus_stats"
    /\ \E count_ok, get_ok \in BOOLEAN :
        Respond(r, IF get_collection_stats(collection, count_ok, get_ok).ok
                   THEN 200 ELSE 500)
    /\ UNCHANGED <<corpus, rag_assistant, initialization_status>>
    /\ UNCHANGED <<chunkerVars, storeVars>>

\* process_corpus (or add_file) returns n to its caller: init_thread goes on
\* to record the completion, the request to save the state
ReturnFromProcessCorpus(t, n) ==
    /\ Goto(t, IF t \in InitThreads THEN "init_complete" ELSE "save_state")
    /\ local' = [local EXCEPT ![t] = [NoLocals EXCEPT !.returned = n]]

\* variant of UseExisting: the corpus is processed in every call
UseExistingNever(total_documents, reprocess) == FALSE

\* process_corpus: stats["total_documents"] > 0 and not reprocess
UseExisting(total_documents, reprocess) == total_documents > 0 /\ ~reprocess

\* process_corpus: get_collection_stats() and the test on total_documents
ProcessCorpusStats(t) ==
    /\ pc[t] = "pc_stats"
    /\ \E engine_ok \in BOOLEAN :
        IF ~engine_ok THEN Raise(t)
        ELSE IF UseExisting(Len(collection), local[t].reprocess)
             THEN ReturnFromProcessCorpus(t, Len(collection))
             ELSE /\ local' = [local EXCEPT ![t].total = Len(collection)]
                  /\ Goto(t, "pc_dir")
    /\ UNCHANGED <<corpus, rag_assistant, initialization_status>>
    /\ UNCHANGED <<chunkerVars, storeVars>>

\* what process_corpus does once the collection is ready for the chunks
AfterClear(t, chunk_list) ==
    IF chunk_list # <<>>
    THEN /\ Goto(t, "add_embed")
         /\ local' = [local EXCEPT ![t].chunks = chunk_list]
    ELSE ReturnFromProcessCorpus(t, 0)

\* process_corpus: process_directory(corpus_directory)
ProcessCorpusDirectory(t) ==
    /\ pc[t] = "pc_dir"
    /\ LET dir_chunks == process_directory(AssistantProcessor, corpus)
       IN  IF local[t].reprocess /\ local[t].total > 0
           THEN /\ Goto(t, "pc_delete")
                /\ local' = [local EXCEPT ![t].chunks = dir_chunks]
           ELSE AfterClear(t, dir_chunks)
    /\ UNCHANGED <<corpus, rag_assistant, initialization_status>>
    /\ UNCHANGED <<chunkerVars, storeVars>>

\* process_corpus: collection.delete(where={})
ProcessCorpusDelete(t) ==
    /\ pc[t] = "pc_delete"
    /\ \E engine_ok \in BOOLEAN :
        IF ~engine_ok
        THEN /\ Raise(t)
             /\ UNCHANGED collection
        ELSE /\ collection' = EngineDeleteAll(collection)
             /\ AfterClear(t, local[t].chunks)
    /\ UNCHANGED <<corpus, rag_assistant, initialization_status>>
    /\ UNCHANGED <<disk, on_duplicate, last, prev_collection, persisted, add_ids>>
    /\ UNCHANGED chunkerVars

\* add_texts: embeddings = self.embeddings.embed_documents(texts)
AddTextsEmbed(t) ==
    /\ pc[t] = "add_embed"
    /\ \E provider_ok \in BOOLEAN :
        IF add_texts(collection, local[t].chunks, on_duplicate, provider_ok, TRUE).error
              = "embedding"
        THEN Raise(t)
        ELSE /\ Goto(t, "add_insert")
             /\ UNCHANGED local
    /\ UNCHANGED <<corpus, rag_assistant, initialization_status>>
    /\ UNCHANGED <<chunkerVars, storeVars>>

\* add_texts: self.collection.add(...), and the return to the caller
AddTextsInsert(t) ==
    /\ pc[t] = "add_insert"
    /\ \E engine_ok \in BOOLEAN :
        LET r == add_texts(collection, local[t].chunks, on_duplicate, TRUE, engine_ok)
        IN  /\ collection' = r.collection
            /\ IF ~r.ok THEN Raise(t)
               ELSE ReturnFromProcessCorpus(t, Len(local[t].chunks))
    /\ UNCHANGED <<corpus, rag_assistant, initialization_status>>
    /\ UNCHANGED <<disk, on_duplicate, last, prev_collection, persisted, add_ids>>
    /\ UNCHANGED chunkerVars

\* save_state / save_to_disk: data = self.collection.get() and
\* json.dump(documents, f), then the response of the request
SaveState(r) ==
    /\ pc[r] = "save_state"
    /\ \E engine_ok \in BOOLEAN :
        IF ~engine_ok
        THEN /\ Raise(r)
             /\ UNCHANGED <<disk, persisted>>
        ELSE LET data == SavedDocuments(collection)
             IN  /\ disk' = [exists |-> TRUE, valid |-> TRUE, content |-> JsonDump(data)]
                 /\ persisted' = Records(collection)
                 /\ Respond(r, 200)
    /\ UNCHANGED <<corpus, rag_assistant, initialization_status>>
    /\ UNCHANGED <<collection, on_duplicate, last, prev_collection, add_ids>>
    /\ UNCHANGED chunkerVars

NextWeb ==
    \/ \E r \in Requests :
        \/ Index(r)
        \/ \E up \in Uploads : Upload(r, up)
        \/ UploadSave(r)
        \/ AddFile(r)
        \/ Reprocess(r)
        \/ SaveState(r)
        \/ \E body \in Bodies : Generate(r, body)
        \/ GenerateAnswer(r)
        \/ Corpus(r)
        \/ CorpusStats(r)
    \/ \E t \in InitThreads :
        \/ InitBegin(t)
        \/ InitConstruct(t)
        \/ InitComplete(t)
        \/ InitFailed(t)
    \/ \E t \in Threads :
        \/ ProcessCorpusStats(t)
        \/ ProcessCorpusDirectory(t)
        \/ ProcessCorpusDelete(t)
        \/ AddTextsEmbed(t)
        \/ AddTextsInsert(t)

SpecWeb == InitWeb /\ [][NextWeb]_vars

\* a step of the initialization thread t.  The thread is a daemon thread of
\* the interpreter: once started it is scheduled until init_thread returns,
\* and each call it makes is taken to return or raise.
InitThreadStep(t) ==
    \/ InitBegin(t)
    \/ InitConstruct(t)
    \/ ProcessCorpusStats(t)
    \/ ProcessCorpusDirectory(t)
    \/ ProcessCorpusDelete(t)
    \/ AddTextsEmbed(t)
    \/ AddTextsInsert(t)
    \/ InitComplete(t)
    \/ InitFailed(t)

SpecWebFair ==
    InitWeb /\ [][NextWeb]_vars /\ \A t \in InitThreads : WF_vars(InitThreadStep(t))

----------------------------------------------------------------------------
(* Properties of chunk_text, checked under SpecChunker.                    *)

\* the paragraphs of the document that was chunked
DocParagraphs == Paragraphs(text)

\* the word count of paragraph number k of the document
ParaWords(k) == WordCount(DocParagraphs[k])

ParaSet(c) == {c.paras[k] : k \in 1..Len(c.paras)}

RECURSIVE SumWords(_)
SumWords(idx) == IF idx = <<>> THEN 0 ELSE ParaWords(Head(idx)) + SumWords(Tail(idx))

AllParas == [k \in 1..Len(DocParagraphs) |-> k]

\* C1: the chunk_id values of the returned chunks are 0, 1, ..., N-1 in
\* output order, for every text and configuration.
C1_ChunkIdsContiguous ==
    called => \A i \in 1..Len(chunks) : chunks[i].metadata.chunk_id = i - 1

C1_Witness == called /\ Len(chunks) >= 3

\* C2 as stated: a document whose total word count is at most chunk_size
\* gives exactly one chunk, holding every paragraph.
C2_Original ==
    (called /\ WordCount(text) <= chunk_size)
        => /\ Len(chunks) = 1
           /\ chunks[1].paras = AllParas

\* C2 as amended: a document with at least one non-empty paragraph whose
\* total word count is at most chunk_size gives exactly one chunk, and the
\* text of that chunk is all the paragraphs joined by blank lines.
C2_OneChunkWhenFits ==
    (called /\ DocParagraphs # <<>> /\ WordCount(text) <= chunk_size)
        => /\ Len(chunks) = 1
           /\ chunks[1].paras = AllParas
           /\ chunks[1].text = Join(DocParagraphs, AllParas)

C2_Witness ==
    /\ called
    /\ Len(DocParagraphs) >= 2
    /\ WordCount(text) = chunk_size
    /\ Len(chunks) = 1

\* C3 as stated: with chunk_size = 100, three paragraphs of 60 words give
\* two chunks, paragraphs 1 and 2 then paragraph 3, and two paragraphs of 60
\* words give one chunk.
C3_Original ==
    (called /\ chunk_size = 100)
        => /\ text = Document(<<60, 60, 60>>)
                => /\ Len(chunks) = 2
                   /\ chunks[1].paras = <<1, 2>>
                   /\ chunks[2].paras = <<3>>
           /\ text = Document(<<60, 60>>) => Len(chunks) = 1

\* C3 as amended: with chunk_size = 100, three paragraphs of 60 words give
\* three chunks of one paragraph and 60 words each, and two paragraphs of 60
\* words give two chunks of one paragraph each, for every chunk_overlap.
C3_SixtyWordParagraphs ==
    (called /\ chunk_size = 100)
        => /\ text = Document(<<60, 60, 60>>)
                => /\ Len(chunks) = 3
                   /\ \A i \in 1..3 : /\ chunks[i].paras = <<i>>
                                      /\ chunks[i].metadata.word_count = 60
           /\ text = Document(<<60, 60>>)
                => /\ Len(chunks) = 2
                   /\ \A i \in 1..2 : chunks[i].paras = <<i>>

C3_Witness ==
    /\ called
    /\ chunk_size = 100
    /\ chunk_overlap > 0
    /\ text = Document(<<60, 60, 60>>)
    /\ Len(chunks) = 3

\* C4: every chunk has word_count <= chunk_size unless it holds a paragraph
\* whose own word count exceeds chunk_size.
C4_WithinTarget ==
    called => \A i \in 1..Len(chunks) :
                 \/ chunks[i].metadata.word_count <= chunk_size
                 \/ \E k \in ParaSet(chunks[i]) : ParaWords(k) > chunk_size

\* C5: a paragraph whose word count exceeds chunk_size is the only
\* paragraph of every chunk that holds it.
C5_OversizedAlone ==
    called => \A i \in 1..Len(chunks) : \A k \in ParaSet(chunks[i]) :
                 ParaWords(k) > chunk_size => chunks[i].paras = <<k>>

\* C6: after a chunk closed with more than one paragraph under a positive
\* chunk_overlap, the next chunk starts with the last paragraph of the closed
\* chunk, shares no other paragraph with it and counts that paragraph's words;
\* otherwise the next chunk shares no paragraph with the closed one.
C6_Overlap ==
    called => \A i \in 1..(Len(chunks) - 1) :
        LET closed == chunks[i]
            next == chunks[i + 1]
            shared == closed.paras[Len(closed.paras)]
        IN  IF chunk_overlap > 0 /\ Len(closed.paras) > 1
            THEN /\ Head(next.paras) = shared
                 /\ ParaSet(next) \cap ParaSet(closed) = {shared}
                 /\ next.metadata.word_count = SumWords(next.paras)
            ELSE ParaSet(next) \cap ParaSet(closed) = {}

C6_Witness ==
    /\ called
    /\ chunk_overlap > 0
    /\ \E i \in 1..(Len(chunks) - 1) : Len(chunks[i].paras) > 1
    /\ \E i \in 1..(Len(chunks) - 1) : Len(chunks[i].paras) = 1

\* the chunks that hold paragraph number k of the document
ChunksHolding(k) == {i \in 1..Len(chunks) : k \in ParaSet(chunks[i])}

\* C27: chunk_text loses and reorders nothing: every non-empty paragraph of
\* the document appears in at least one chunk, paragraphs appear within and
\* across chunks in document order, every chunk holds at least one
\* paragraph, and with chunk_overlap == 0 every paragraph appears in exactly
\* one chunk.
C27_NothingLost ==
    called =>
        /\ \A k \in 1..Len(DocParagraphs) : ChunksHolding(k) # {}
        /\ \A i \in 1..Len(chunks) :
              LET held == chunks[i].paras
              IN  /\ held # <<>>
                  /\ \A j \in 1..Len(held) : held[j] \in 1..Len(DocParagraphs)
                  /\ \A j \in 1..(Len(held) - 1) : held[j + 1] = held[j] + 1
                  /\ chunks[i].text = Join(DocParagraphs, held)
        /\ \A i \in 1..(Len(chunks) - 1) :
              chunks[i].paras[Len(chunks[i].paras)] <= Head(chunks[i + 1].paras)
        /\ chunk_overlap = 0 =>
              \A k \in 1..Len(DocParagraphs) : Cardinality(ChunksHolding(k)) = 1

C27_Witness ==
    /\ called
    /\ chunk_overlap = 0
    /\ Len(DocParagraphs) = 4
    /\ Len(chunks) = 2
    /\ Len(chunks[1].paras) = 3
    /\ chunks[2].paras = <<4>>

----------------------------------------------------------------------------
(* Properties of the VectorStore, checked under Spec.                      *)

\* the (id, text, metadata) triples listed in the file on disk
FileRecords ==
    LET documents == JsonLoad(disk.content)
    IN  {<<documents[i].id, documents[i].text, documents[i].metadata>> :
            i \in 1..Len(documents)}

Restored == last.op = "load_from_disk" /\ last.ok

\* C7: after save_to_disk and a later successful load_from_disk of the
\* written file, the collection holds records with the same identifiers and
\* the same (text, metadata) pairs as it held when it was saved.
C7_RoundTrip == Restored => Records(collection) = persisted

C7_Witness ==
    /\ Restored
    /\ Cardinality(persisted) >= 2
    /\ Records(prev_collection) # persisted

\* C8: after a successful load_from_disk the collection holds exactly the
\* records listed in the file, and no record it held before the call that is
\* not in the file.
C8_RestoreReplaces ==
    Restored => /\ Records(collection) = FileRecords
                /\ \A r \in Records(prev_collection) \ FileRecords :
                      r \notin Records(collection)

C8_Witness ==
    /\ Restored
    /\ FileRecords # {}
    /\ Records(prev_collection) \ FileRecords # {}

\* C9: add_texts returns doc_0 .. doc_{n-1}; of two add calls with no clear
\* in between, the second returns the same identifiers as the first at the
\* positions both have, and the collection already held a record under each
\* of those identifiers when the second call started.
C9_PositionalIds ==
    (last.op = "add_texts" /\ last.ok) =>
        /\ add_ids # <<>> /\ add_ids[1] = last.ids
        /\ \A i \in 1..Len(last.ids) : last.ids[i] = DocId(i - 1)
        /\ Len(add_ids) = 2 =>
              \A i \in 1..Min({Len(add_ids[1]), Len(add_ids[2])}) :
                  /\ add_ids[1][i] = add_ids[2][i]
                  /\ add_ids[1][i] \in Ids(prev_collection)

C9_Witness ==
    /\ last.op = "add_texts" /\ last.ok
    /\ Len(add_ids) = 2
    /\ Len(add_ids[1]) < Len(add_ids[2])
    /\ Ids(prev_collection) \cap {last.ids[i] : i \in 1..Len(last.ids)} # {}


Searched == last.op = "similarity_search" /\ last.ok

\* C11: a query for k results on a collection holding n records returns
\* exactly min(k, n) results (the records the filter admits, when a filter
\* is given), each carrying text, metadata, id and distance and each a
\* record of the collection, ordered by non-decreasing distance.
C11_QueryResults ==
    Searched =>
        LET k == last.args[2]
            where == last.args[3]
            res == last.results
            admitted == SelectSeq(collection, LAMBDA rec : Matches(rec, where))
        IN  /\ where = NoFilter => Len(res) = Min({k, Len(collection)})
            /\ Len(res) = Min({k, Len(admitted)})
            /\ \A i \in 1..Len(res) :
                  /\ DOMAIN res[i] = {"text", "metadata", "id", "distance"}
                  /\ <<res[i].id, res[i].text, res[i].metadata>> \in Records(collection)
                  /\ res[i].distance \in Nat
            /\ \A i, j \in 1..Len(res) : i < j => res[i].distance <= res[j].distance

C11_Witness ==
    /\ Searched
    /\ last.args[2] = 3
    /\ last.args[3] = NoFilter
    /\ Len(collection) = 2
    /\ Len(last.results) = 2
    /\ last.results[1].distance < last.results[2].distance
    /\ last.results[1].id = collection[2].id


\* C12: each add_texts call and each similarity_search call makes exactly
\* one embedding-provider call, first, and exactly one storage-engine call
\* after the embedding call has returned; neither call is repeated.  The
\* storage call is missing only from a call the embedding provider's failure
\* has aborted.
C12_OneCallEach ==
    last.op \in {"add_texts", "similarity_search"} =>
        LET embedding == IF last.op = "add_texts" THEN "embed_documents" ELSE "embed_query"
            storage == IF last.op = "add_texts" THEN "collection.add" ELSE "collection.query"
        IN  /\ last.calls \in {<<embedding>>, <<embedding, storage>>}
            /\ last.calls = <<embedding>> <=> last.raised = "embedding"
            /\ last.ok => last.calls = <<embedding, storage>>

C12_Witness ==
    /\ Searched
    /\ last.calls = <<"embed_query", "collection.query">>
    /\ Len(last.results) = 1
    /\ \E i \in 1..Len(collection) : collection[i].id = DocId(1)


\* the external service a call is made on
Service(call) ==
    IF call \in {"embed_documents", "embed_query"} THEN "embedding" ELSE "storage"

\* C13: a failure of the embedding provider or of the storage engine during
\* add_texts, similarity_search or load_from_disk aborts the call (the
\* failing external call is the last one it makes and nothing is returned),
\* reaches the caller as the error that was raised, and is not retried: the
\* failing external call is made once.
C13_FailureAborts ==
    (/\ last.op \in {"add_texts", "similarity_search", "load_from_disk"}
     /\ last.raised \in {"embedding", "storage"})
    => /\ ~last.ok
       /\ last.error = last.raised
       /\ last.calls # <<>>
       /\ Service(last.calls[Len(last.calls)]) = last.raised
       /\ Cardinality({i \in 1..Len(last.calls) :
                          last.calls[i] = last.calls[Len(last.calls)]}) = 1
       /\ last.ids = <<>> /\ last.results = <<>>

C13_Witness ==
    /\ last.op = "load_from_disk"
    /\ last.raised = "embedding"
    /\ last.calls = <<"collection.delete", "embed_documents">>
    /\ prev_collection # <<>>


\* C15: a chunker configured with an invalid chunk_size or chunk_overlap
\* (chunk_size <= 0 or a negative overlap) is rejected: chunk_text never
\* returns chunks made under such a configuration.
C15_InvalidConfigRejected == (chunk_size <= 0 \/ chunk_overlap < 0) => ~called


\* C19: the word_count in each chunk's metadata equals the number of
\* whitespace-delimited tokens of that chunk's text, for every chunk, those
\* that start with a carried-over paragraph included.
C19_WordCount ==
    called => \A i \in 1..Len(chunks) :
                  chunks[i].metadata.word_count = WordCount(chunks[i].text)

C19_Witness ==
    /\ called
    /\ chunk_overlap > 0
    /\ \E i \in 2..Len(chunks) :
          /\ Len(chunks[i].paras) >= 2
          /\ Head(chunks[i].paras) \in ParaSet(chunks[i - 1])
          /\ chunks[i].metadata.word_count >= 3


\* the positive values of chunk_overlap compared
PositiveOverlaps == {o \in ChunkOverlaps : o > 0} \cup {2}

C22_NothingFromBlank ==
    (called /\ \A i \in 1..Len(text) : IsSpace(text[i])) => chunks = <<>>

C22_Witness ==
    /\ called
    /\ Len(text) >= 3
    /\ \A i \in 1..Len(text) : IsSpace(text[i])
    /\ \E i \in 1..(Len(text) - 1) : text[i] = NL /\ text[i + 1] = NL
    /\ \E i \in 1..Len(text) : text[i] = SP
    /\ chunks = <<>>


----------------------------------------------------------------------------
(* Properties of extract_metadata_from_filename, checked under             *)
(* SpecMetadata.                                                           *)

\* the file name without its extension
BaseName == SplitExtBase(file_name)

\* the base name has the form '<title> [<tag1>, <tag2>, ...]': one bracketed
\* segment, at its end
HasTagForm ==
    /\ Cardinality({i \in 1..Len(BaseName) : BaseName[i] = "["}) = 1
    /\ Cardinality({i \in 1..Len(BaseName) : BaseName[i] = "]"}) = 1
    /\ BaseName[Len(BaseName)] = "]"

OpenAt == CHOOSE i \in 1..Len(BaseName) : BaseName[i] = "["

\* the trimmed comma-separated entries of the bracketed segment
TrimmedEntries ==
    LET pieces == SplitOn(SubSeq(BaseName, OpenAt + 1, Len(BaseName) - 1), ",")
    IN  [i \in 1..Len(pieces) |-> Strip(pieces[i])]

\* C17: when the base name has the form '<title> [<tag1>, <tag2>, ...]',
\* tags is the sequence of trimmed comma-separated entries of the bracketed
\* segment and title is the remainder of the base name; for every other base
\* name tags is empty and title is the whole base name; source_file is
\* always the original file name.
C17_TitleAndTags ==
    called =>
        /\ metadata.source_file = file_name
        /\ IF HasTagForm
           THEN /\ metadata.tags = TrimmedEntries
                /\ metadata.title = Strip(SubSeq(BaseName, 1, OpenAt - 1))
           ELSE /\ metadata.tags = <<>>
                /\ metadata.title = BaseName


\* the keywords in their order of precedence, each with its content type
Precedence ==
    <<[keyword |-> <<"e", "s", "s", "a", "y">>, type |-> "essay"],
      [keyword |-> <<"r", "e", "f", "l", "e", "c", "t", "i", "o", "n">>, type |-> "reflection"],
      [keyword |-> <<"p", "o", "d", "c", "a", "s", "t">>, type |-> "podcast"],
      [keyword |-> <<"s", "u", "b", "s", "t", "a", "c", "k">>, type |-> "newsletter"],
      [keyword |-> <<"n", "e", "w", "s", "l", "e", "t", "t", "e", "r">>, type |-> "newsletter"]>>

\* the places of Precedence whose keyword the base name contains, whatever
\* the case of its letters
Present == {i \in 1..Len(Precedence) : Contains(Lower(BaseName), Precedence[i].keyword)}

\* C18: content_type is that of the first keyword, in the precedence essay,
\* reflection, podcast, substack/newsletter, that the base name contains
\* case-insensitively; a base name that contains none gets "general".
C18_Precedence ==
    called =>
        metadata.content_type =
            IF Present = {} THEN "general" ELSE Precedence[Min(Present)].type

C18_Witness ==
    /\ called
    /\ Present = {2, 3}
    /\ Lower(BaseName) # BaseName
    /\ Contains(Lower(BaseName), <<"p", "o", "d", "c", "a", "s", "t", "_", "r">>)
    /\ metadata.content_type = "reflection"


----------------------------------------------------------------------------
(* Properties of process_directory, checked under SpecBatch.               *)

\* the .txt files of the directory that can be read, in listing order
ReadableFiles ==
    SelectSeq(ListingOrder,
              LAMBDA f : f \in DOMAIN corpus /\ EndsWithTxt(f) /\ corpus[f].readable)

\* the chunks of the first n readable files, each file's list complete
RECURSIVE ChunksOfReadable(_)
ChunksOfReadable(n) ==
    IF n = 0 THEN <<>>
    ELSE ChunksOfReadable(n - 1)
         \o chunk_text(Processor, corpus[ReadableFiles[n]].content,
                       extract_metadata_from_filename(ReadableFiles[n]))

\* C14: when some files of a batch cannot be read, each of them contributes
\* no chunks and processing continues: the result is the concatenation, in
\* listing order, of the complete chunk lists of every readable file.
C14_FailuresIsolated == called => chunks = ChunksOfReadable(Len(ReadableFiles))

C14_Witness ==
    /\ called
    /\ ATxt \in DOMAIN corpus /\ corpus[ATxt].readable
    /\ BTxt \in DOMAIN corpus /\ ~corpus[BTxt].readable
    /\ EssayTxt \in DOMAIN corpus /\ corpus[EssayTxt].readable
    /\ Len(chunks) >= 4
    /\ chunks[1].metadata.source_file = ATxt
    /\ chunks[Len(chunks)].metadata.source_file = EssayTxt


RECURSIVE SumOver(_, _)
SumOver(f, keys) ==
    IF keys = {} THEN 0
    ELSE LET key == CHOOSE x \in keys : TRUE
         IN  f[key] + SumOver(f, keys \ {key})

\* the records of the collection filed under content type ct
RecordsOfType(ct) ==
    {i \in 1..Len(collection) :
        IF "content_type" \in DOMAIN collection[i].metadata
        THEN collection[i].metadata.content_type = ct
        ELSE ct = "unknown"}

\* C16: get_collection_stats returns the total record count and a count per
\* content_type in which a record without content_type is counted under
\* "unknown"; the per-type counts sum to the total.
C16_Stats ==
    (last.op = "get_collection_stats" /\ last.ok) =>
        LET stats == last.results
        IN  /\ stats.total_documents = Len(collection)
            /\ \A ct \in DOMAIN stats.content_types :
                  /\ stats.content_types[ct] = Cardinality(RecordsOfType(ct))
                  /\ stats.content_types[ct] > 0
            /\ \A i \in 1..Len(collection) :
                  \E ct \in DOMAIN stats.content_types : i \in RecordsOfType(ct)
            /\ SumOver(stats.content_types, DOMAIN stats.content_types)
                  = stats.total_documents

C16_Witness ==
    /\ last.op = "get_collection_stats" /\ last.ok
    /\ last.results.total_documents = 2
    /\ DOMAIN last.results.content_types = {"unknown", "general"}


----------------------------------------------------------------------------
(* Properties of the web application, checked under SpecWeb.               *)

\* the thread is inside a call that changes the collection: add_texts
\* (from its embedding call to its insert) or collection.delete
InMutatingCall(t) == pc[t] \in {"add_embed", "add_insert", "pc_delete"}

\* C10: at any time at most one mutating call (add, clear, restore) is in
\* flight on the collection: the upload and reprocess requests never run
\* their mutations of the collection concurrently.
C10_SingleWriter == Cardinality({r \in Requests : InMutatingCall(r)}) <= 1

\* the initialization threads that have been started
Started == {t \in InitThreads : pc[t] # "unborn"}

\* a step does not take the status from an outcome back to in_progress
StatusKeepsOutcome ==
    initialization_status \in {"complete", "error"}
        => initialization_status' # "in_progress"

\* C23: for any interleaving of concurrent requests to the index page the
\* background initialization is started at most once: two initialization
\* threads never exist, and the initialization status never moves back from
\* "complete" or "error" to "in_progress".
C23_InitOnce ==
    /\ [](Cardinality(Started) <= 1)
    /\ [][StatusKeepsOutcome]_vars

\* the request thread r returns from process_corpus(reprocess=True)
ReprocessReturns(r) ==
    /\ local[r].reprocess
    /\ pc[r] \in {"pc_stats", "pc_dir", "pc_delete", "add_insert"}
    /\ pc'[r] = "save_state"

\* C25: after process_corpus(reprocess=True) returns, the collection
\* contains exactly the chunks of the current corpus files and no record
\* from before the call, and the returned number equals the collection's
\* record count.
C25_FreshReplacement ==
    [][\A r \in Requests :
          ReprocessReturns(r) =>
              /\ collection' = NewRecords(process_directory(AssistantProcessor, corpus'))
              /\ local'[r].returned = Len(collection')]_vars

\* the thread t takes the first step of process_corpus(reprocess=False) on
\* a collection that holds records
StatsOnExisting(t) ==
    /\ pc[t] = "pc_stats"
    /\ pc'[t] # "pc_stats"
    /\ ~local[t].reprocess
    /\ Len(collection) > 0

\* C28: process_corpus(reprocess=False) called on a non-empty collection
\* returns the current record count and leaves the collection unchanged,
\* without reading the corpus directory, so files added to the corpus since
\* the last processing are not indexed.
C28_ExistingKept ==
    [][\A t \in Threads :
          StatsOnExisting(t) =>
              /\ collection' = collection
              /\ pc'[t] \in {"init_complete", "save_state", "init_failed", "finished"}
              /\ pc'[t] \in {"init_complete", "save_state"}
                    => local'[t].returned = Len(collection)]_vars

\* the source files of the records of the collection
SourceFiles == {collection[i].metadata.source_file : i \in 1..Len(collection)}

C28_Witness ==
    \E t \in InitThreads :
        /\ pc[t] = "init_complete"
        /\ local[t].returned = 1
        /\ Len(collection) = 1
        /\ SourceFiles = {NotesTxt}
        /\ DOMAIN corpus = {BTxt}

\* the initialization has an outcome
Outcome == initialization_status \in {"complete", "error"}

\* C29: once the background initialization has started, the initialization
\* status eventually becomes "complete" or "error" and does not stay
\* "in_progress" forever, provided the assistant constructor and
\* process_corpus each return or raise; an exception in either always leads
\* to "error".
C29_InitEnds ==
    /\ [](initialization_status = "in_progress" => Started # {})
    /\ (Started # {}) ~> Outcome
    /\ (\E t \in InitThreads : pc[t] = "init_failed")
          ~> (initialization_status = "error")

C29_Witness ==
    /\ Cardinality(Started) = 1
    /\ \E t \in InitThreads : pc[t] = "finished"
    /\ rag_assistant
    /\ initialization_status = "error"

\* the positions of a request thread inside a call on the assistant:
\* add_file, process_corpus, save_state, generate_content, get_corpus_stats
InAssistant ==
    {"add_file", "pc_stats", "pc_dir", "pc_delete", "add_embed", "add_insert",
     "save_state", "generate", "corpus_stats"}

\* the request thread r takes a step of a call on the assistant
AssistantStep(r) == pc[r] \in InAssistant /\ pc'[r] # pc[r]

\* C24: the generate, upload, reprocess and corpus endpoints call the
\* assistant only when the initialization status is "complete" and the
\* assistant object exists; in every other state they answer 503 without
\* calling the assistant or changing the collection.
C24_GatedEndpoints ==
    [][\A r \in Requests :
          /\ AssistantStep(r) => ~NotInitialized
          /\ (pc[r] # pc'[r] /\ collection' # collection) => ~NotInitialized
          /\ (pc[r] # pc'[r] /\ local'[r].response = 503)
                => NotInitialized /\ pc[r] = "unborn" /\ collection' = collection]_vars

----------------------------------------------------------------------------
(* Failures of load_from_disk, checked under Spec.                         *)

\* the last call was a load_from_disk that raised at the given external call
RestoreFailedAt(call) ==
    /\ last.op = "load_from_disk"
    /\ ~last.ok
    /\ last.calls # <<>>
    /\ last.calls[Len(last.calls)] = call

\* C26: if restore (load_from_disk) fails while reading or parsing the
\* file, the collection is unchanged; if it fails at the embedding call or at
\* the storage insert, the collection has already been cleared and is left
\* empty, holding neither the previous records nor the loaded ones.
C26_FailedRestore ==
    /\ (last.op = "load_from_disk" /\ last.raised = "file")
          => collection = prev_collection /\ last.calls = <<>>
    /\ (RestoreFailedAt("embed_documents") \/ RestoreFailedAt("collection.add"))
          => /\ collection = <<>>
             /\ last.calls[1] = "collection.delete"

C26_Witness ==
    /\ RestoreFailedAt("collection.add")
    /\ prev_collection # <<>>
    /\ disk.content # <<>>
    /\ collection = <<>>

----------------------------------------------------------------------------
(* Properties of generate_content, checked under Spec.                     *)

Generated == last.op = "generate_content"

\* C30: generate_content invokes the language model only when retrieval
\* returned at least one record, and then once; when the retrieval result
\* is empty it returns the fixed 'not enough context' message and makes no
\* language-model call.
C30_LlmOnlyWithContext ==
    Generated =>
        LET llm_calls == {i \in 1..Len(last.calls) : last.calls[i] = "llm.invoke"}
        IN  /\ llm_calls # {} => last.results.context_docs # <<>>
            /\ Cardinality(llm_calls) <= 1
            /\ (last.ok /\ last.results.context_docs = <<>>)
                  => /\ last.results.content = NotEnoughContext
                     /\ llm_calls = {}
            /\ (last.ok /\ last.results.context_docs # <<>>)
                  => last.calls = <<"embed_query", "collection.query", "llm.invoke">>

C30_Witness ==
    /\ Generated
    /\ last.ok
    /\ collection = <<>>
    /\ last.results.context_docs = <<>>
    /\ last.results.content = NotEnoughContext
    /\ last.calls = <<"embed_query", "collection.query">>

====
